---------------------------- MODULE Spec2Model ----------------------------
(***************************************************************************)
(* Model of kinder/quaternions/QuaternionEigen.hpp: the class templates    *)
(* Quaternion<PrimType_> and UnitQuaternion<PrimType_> and the unit-norm   *)
(* assertion executed by the validating entry points of UnitQuaternion.    *)
(*                                                                         *)
(* Scalars are fixed-point numbers on a grid of 0.5e-4: the value 1.0 is   *)
(* the integer One and the tolerance 1e-4 of the unit-norm assertion is    *)
(* Tol.  A double holds every grid value; a float holds every              *)
(* FloatQuantum-th one, so static_cast<float>(double) rounds (ties to      *)
(* even) and static_cast<double>(float) is exact.  Norms are compared      *)
(* exactly, by their squares.  NaN and infinity are outside the grid:      *)
(* normalisation of the zero quaternion is not modelled.                   *)
(***************************************************************************)
EXTENDS Integers, Sequences, FiniteSets

VARIABLES
  checked,   \* TRUE: the _DBG assertions are compiled in (NDEBUG not defined)
  uq,        \* the UnitQuaternion variables of the client, by name
  q,         \* the Quaternion variable of the client
  last,      \* the last operation: what it was applied to, what it returned
  writes     \* number of writes made through mutable component accessors

vars == <<checked, uq, q, last, writes>>

---------------------------------------------------------------------------
(* Scalars *)

\* the value 1 the norm is compared with, in grid units (a unit is 0.5e-4)
One == 20000

\* the tolerance 1e-4 of the comparison, in grid units
Tol == 2

\* spacing of the float values on the grid
FloatQuantum == 2

\* number of writes through mutable accessors a behaviour may make
MaxWrites == 1

Prims == {"double", "float"}

Abs(n) == IF n < 0 THEN -n ELSE n

Quantum(p) == IF p = "float" THEN FloatQuantum ELSE 1

\* round n to the nearest multiple of m, ties to the even multiple
RoundToMultiple(n, m) ==
  LET a == Abs(n)
      k == a \div m
      r == a % m
      up == \/ 2 * r > m
            \/ (2 * r = m /\ k % 2 = 1)
      v == (IF up THEN k + 1 ELSE k) * m
  IN  IF n < 0 THEN -v ELSE v

\* static_cast<to>(v) of a scalar v of type from
StaticCast(v, from, to) ==
  IF Quantum(to) = Quantum(from) THEN v ELSE RoundToMultiple(v, Quantum(to))

---------------------------------------------------------------------------
(* Eigen::Quaternion<PrimType_>, the native representation *)

Impl(w0, x0, y0, z0) == [w |-> w0, x |-> x0, y |-> y0, z |-> z0]

ImplIdentity == Impl(One, 0, 0, 0)

ImplConjugate(e) == Impl(e.w, -e.x, -e.y, -e.z)

SquaredNorm(e) == e.w * e.w + e.x * e.x + e.y * e.y + e.z * e.z

\* -1, 0, 1 as p1/q1 is less than, equal to, greater than p2/q2
\* (p1, p2 >= 0 and q1, q2 > 0; by continued fractions, so that no product
\* leaves the 32-bit integers)
RECURSIVE CmpFrac(_, _, _, _)
CmpFrac(p1, q1, p2, q2) ==
  LET i1 == p1 \div q1
      i2 == p2 \div q2
      r1 == p1 % q1
      r2 == p2 % q2
  IN  IF i1 # i2 THEN (IF i1 < i2 THEN -1 ELSE 1)
      ELSE IF r1 = 0 /\ r2 = 0 THEN 0
      ELSE IF r1 = 0 THEN -1
      ELSE IF r2 = 0 THEN 1
      ELSE CmpFrac(q2, r2, q1, r1)

\* a * b <= c * d for naturals
LeqProd(a, b, c, d) ==
  IF a = 0 \/ b = 0 THEN TRUE
  ELSE IF c = 0 \/ d = 0 THEN FALSE
  ELSE CmpFrac(a, c, d, b) <= 0

\* the largest m in lo..hi with ((2m-1) * g)^2 * n2 <= (2t)^2, that is
\* (m - 1/2) * g <= t / sqrt(n2): t / sqrt(n2) in multiples of g, rounded
RECURSIVE RoundQuot(_, _, _, _, _)
RoundQuot(t, n2, g, lo, hi) ==
  IF lo = hi THEN lo
  ELSE LET mid == (lo + hi + 1) \div 2
           d == (2 * mid - 1) * g
       IN  IF LeqProd(d * d, n2, 2 * t, 2 * t)
           THEN RoundQuot(t, n2, g, mid, hi)
           ELSE RoundQuot(t, n2, g, lo, mid - 1)

\* c / norm for one coefficient c of a quaternion of squared norm n2 # 0,
\* rounded to the grid of scalar type p
DivByNorm(c, n2, p) ==
  LET g == Quantum(p)
      v == RoundQuot(Abs(c) * One, n2, g, 0, One \div g) * g
  IN  IF c < 0 THEN -v ELSE v

\* Eigen's normalized(): coeffs() / norm()
ImplNormalized(e, p) ==
  LET n2 == SquaredNorm(e)
  IN  Impl(DivByNorm(e.w, n2, p), DivByNorm(e.x, n2, p),
           DivByNorm(e.y, n2, p), DivByNorm(e.z, n2, p))

\* | norm(e) - ref | <= tol, for 0 <= tol <= ref
NormNear(e, ref, tol) ==
  /\ (ref - tol) * (ref - tol) <= SquaredNorm(e)
  /\ SquaredNorm(e) <= (ref + tol) * (ref + tol)

---------------------------------------------------------------------------
(* The client's variables *)

Slots == {"a", "b"}

\* a UnitQuaternion variable that is not in scope
Dead == [live |-> FALSE, prim |-> "double", e |-> Impl(0, 0, 0, 0)]

\* a UnitQuaternion<p> whose member unitQuternion_ holds e
Unit(p, e) == [live |-> TRUE, prim |-> p, e |-> e]

\* a Quaternion<p>, which is an Eigen::Quaternion<p>
Quat(p, e) == [prim |-> p, e |-> e]

\* the raw values the client supplies, as (w, x, y, z) in double
Inputs ==
  { <<20000, 0, 0, 0>>,            \* (1,0,0,0)
    <<40000, 0, 0, 0>>,            \* (2,0,0,0)
    <<0, 0, 0, 20000>>,            \* (0,0,0,1)
    <<7200, 9600, 4480, 15360>>,   \* (0.36,0.48,0.224,0.768), norm 1
    <<20002, 0, 0, 0>>,            \* norm 1.0001
    <<14143, 14143, 0, 0>> }       \* norm 1.00006 in double, 1.00013 in float

\* the values supplied to the constructors that take a vector or an object
FewInputs ==
  { <<20000, 0, 0, 0>>, <<7200, 9600, 4480, 15360>>, <<0, 20003, 0, 0>> }

\* the values the client's Quaternion is constructed from
QuatInputs ==
  { <<40000, 0, 0, 0>>,            \* (2,0,0,0)
    <<6000, -8000, 0, 0>>,         \* (0.3,-0.4,0,0), norm 0.5
    <<14143, 14143, 0, 0>> }       \* norm 1.00006 in double, 1.00013 in float

\* the values the conjugated and copied objects are constructed from
ValueInputs == { <<0, 0, 0, 20000>>, <<7200, 9600, 4480, 15360>> }

\* the values the client writes through a mutable accessor
WriteVals == {12000}

Components == {"w", "x", "y", "z"}

\* the client's values as values of scalar type p
Literal(v, p) == [i \in 1..4 |-> StaticCast(v[i], "double", p)]

CastImpl(e, from, to) ==
  Impl(StaticCast(e.w, from, to), StaticCast(e.x, from, to),
       StaticCast(e.y, from, to), StaticCast(e.z, from, to))

---------------------------------------------------------------------------
(* KINDER_ASSERT_SCALAR_NEAR_DBG(std::runtime_error, norm(), 1, 1e-4, ...) *)

\* TRUE when the assertion throws
AssertScalarNearDbg(e) == checked /\ ~NormNear(e, One, Tol)

\* the number of assertions one use of the macro executes
AssertionsRun == IF checked THEN 1 ELSE 0

---------------------------------------------------------------------------
(* Quaternion<PrimType_> *)

QuaternionDefault == Impl(0, 0, 0, 0)

QuaternionFromScalars(w0, x0, y0, z0) == Impl(w0, x0, y0, z0)

QuaternionFromRealImag(w0, imag) == Impl(w0, imag[1], imag[2], imag[3])

\* a constructor that would read the 4-vector in Eigen's coefficient order
\* (x, y, z, w)
QuaternionFromCoeffs(v) == Impl(v[4], v[1], v[2], v[3])

QuaternionFromVector4(v) == Impl(v[1], v[2], v[3], v[4])

QuaternionConjugated(e) == ImplConjugate(e)

QuaternionGetReal(e) == <<e.w>>

QuaternionGetImaginary(e) == <<e.x, e.y, e.z>>

QuaternionGetVector4(e) == <<e.w, e.x, e.y, e.z>>

\* a toUnitQuaternion() that would hand over the quaternion as it is
NotNormalized(e, p) == e

\* Quaternion::toUnitQuaternion hands this to UnitQuaternion(const Implementation&)
ToUnitQuaternionArg(e, p) == ImplNormalized(e, p)

---------------------------------------------------------------------------
(* UnitQuaternion<PrimType_> *)

\* the end of a validating constructor of UnitQuaternion<p> whose member was
\* initialised to e: the assertion in its body, and the object if it returns
Validated(p, e) ==
  [obj |-> IF AssertScalarNearDbg(e) THEN Dead ELSE Unit(p, e),
   raised |-> AssertScalarNearDbg(e),
   checks |-> AssertionsRun]

\* an operation that executes no assertion
Unvalidated(o) == [obj |-> o, raised |-> FALSE, checks |-> 0]

\* a default constructor that would zero-initialise, as Quaternion's does
UnitQuaternionZero(p) == Unvalidated(Unit(p, QuaternionDefault))

UnitQuaternionDefault(p) == Unvalidated(Unit(p, ImplIdentity))

UnitQuaternionFromScalars(p, v) ==
  Validated(p, QuaternionFromScalars(v[1], v[2], v[3], v[4]))

UnitQuaternionFromRealImag(p, v) ==
  Validated(p, QuaternionFromRealImag(v[1], <<v[2], v[3], v[4]>>))

UnitQuaternionFromVector4(p, v) ==
  Validated(p, QuaternionFromScalars(v[1], v[2], v[3], v[4]))

UnitQuaternionFromQuaternion(p, e) == Validated(p, e)

UnitQuaternionFromImplementation(p, e) == Validated(p, e)

\* an assignment that would leave z out
AssignWithoutZ(t, o) ==
  Unvalidated(Unit(t.prim, Impl(o.e.w, o.e.x, o.e.y, t.e.z)))

\* operator =(const UnitQuaternion<PrimType_>&)
UnitQuaternionAssign(t, o) ==
  Unvalidated(Unit(t.prim, Impl(o.e.w, o.e.x, o.e.y, o.e.z)))

\* operator ()(const UnitQuaternion<PrimType_In>&)
UnitQuaternionConvertUnit(t, o) ==
  Unvalidated(Unit(t.prim, CastImpl(o.e, o.prim, t.prim)))

\* a conversion that would execute the assertion on its argument, before
\* the cast
ConvertQuatAssertingArgument(t, o) ==
  [obj |-> Unit(t.prim, CastImpl(o.e, o.prim, t.prim)),
   raised |-> AssertScalarNearDbg(o.e),
   checks |-> AssertionsRun]

\* operator ()(const Quaternion<PrimType_In>&): the four components are
\* written, then the assertion is executed on the receiver
UnitQuaternionConvertQuat(t, o) ==
  LET e == CastImpl(o.e, o.prim, t.prim)
  IN  [obj |-> Unit(t.prim, e),
       raised |-> AssertScalarNearDbg(e),
       checks |-> AssertionsRun]

\* conjugated(): UnitQuaternion(unitQuternion_.conjugated())
UnitQuaternionConjugated(o) ==
  UnitQuaternionFromQuaternion(o.prim, QuaternionConjugated(o.e))

\* conjugate(): unitQuternion_.conjugate()
UnitQuaternionConjugate(o) ==
  Unvalidated(Unit(o.prim, QuaternionConjugated(o.e)))

\* mutable accessors that would renormalise after the write
WriteRenormalizing(o, c, val) ==
  Unit(o.prim, ImplNormalized([o.e EXCEPT ![c] = val], o.prim))

\* the mutable accessors w(), x(), y(), z(), assigned through
UnitQuaternionWrite(o, c, val) == Unit(o.prim, [o.e EXCEPT ![c] = val])

\* UnitQuaternionBase's w(), x(), y(), z(), which getVector4() calls
UnitQuaternionBaseCoeff(o, c) == o.e[c]

UnitQuaternionGetReal(o) == <<o.e.w>>

UnitQuaternionGetImaginary(o) == <<o.e.x, o.e.y, o.e.z>>

UnitQuaternionGetVector4(o) ==
  << UnitQuaternionBaseCoeff(o, "w"), UnitQuaternionBaseCoeff(o, "x"),
     UnitQuaternionBaseCoeff(o, "y"), UnitQuaternionBaseCoeff(o, "z") >>

\* Quaternion::toUnitQuaternion()
QuaternionToUnitQuaternion(o) ==
  UnitQuaternionFromImplementation(o.prim, ToUnitQuaternionArg(o.e, o.prim))

---------------------------------------------------------------------------
(* The operations of the client *)

\* what `last` records: the operation, the variable it acted on, the variable
\* it read, whether it threw, the assertions it executed, the value supplied
\* (with its scalar type) and the value returned
Op(name, tgt, src, r, arg, aprim, ret) ==
  [op |-> name, tgt |-> tgt, src |-> src, raised |-> r.raised,
   checks |-> r.checks, arg |-> arg, aprim |-> aprim, ret |-> ret]

NoResult == [raised |-> FALSE, checks |-> 0]

Vec(e) == <<e.w, e.x, e.y, e.z>>

Init ==
  /\ checked \in BOOLEAN
  /\ uq = [s \in Slots |-> Dead]
  /\ q = Quat("double", QuaternionDefault)
  /\ last = Op("init", "-", "-", NoResult, <<>>, "double", <<>>)
  /\ writes = 0

\* UnitQuaternion<p> s;
UQ_Default(s, p) ==
  /\ ~uq[s].live
  /\ LET r == UnitQuaternionDefault(p)
     IN  /\ uq' = [uq EXCEPT ![s] = r.obj]
         /\ last' = Op("UnitQuaternion()", s, "-", r, <<>>, p, <<>>)
  /\ UNCHANGED <<checked, q, writes>>

\* UnitQuaternion<p> s(w, x, y, z);
UQ_FromScalars(s, p, v) ==
  /\ ~uq[s].live
  /\ LET r == UnitQuaternionFromScalars(p, v)
     IN  /\ uq' = [uq EXCEPT ![s] = r.obj]
         /\ last' = Op("UnitQuaternion(w,x,y,z)", s, "-", r, v, p, <<>>)
  /\ UNCHANGED <<checked, q, writes>>

\* UnitQuaternion<p> s(w, imag);
UQ_FromRealImag(s, p, v) ==
  /\ ~uq[s].live
  /\ LET r == UnitQuaternionFromRealImag(p, v)
     IN  /\ uq' = [uq EXCEPT ![s] = r.obj]
         /\ last' = Op("UnitQuaternion(w,imag)", s, "-", r, v, p, <<>>)
  /\ UNCHANGED <<checked, q, writes>>

\* UnitQuaternion<p> s(vector4);
UQ_FromVector4(s, p, v) ==
  /\ ~uq[s].live
  /\ LET r == UnitQuaternionFromVector4(p, v)
     IN  /\ uq' = [uq EXCEPT ![s] = r.obj]
         /\ last' = Op("UnitQuaternion(vector4)", s, "-", r, v, p, <<>>)
  /\ UNCHANGED <<checked, q, writes>>

\* UnitQuaternion<p> s(Eigen::Quaternion<p>(w, x, y, z));
UQ_FromImplementation(s, p, v) ==
  /\ ~uq[s].live
  /\ LET r == UnitQuaternionFromImplementation(p, Impl(v[1], v[2], v[3], v[4]))
     IN  /\ uq' = [uq EXCEPT ![s] = r.obj]
         /\ last' = Op("UnitQuaternion(impl)", s, "-", r, v, p, <<>>)
  /\ UNCHANGED <<checked, q, writes>>

\* UnitQuaternion<q.prim> s(q);
UQ_FromQuaternion(s) ==
  /\ ~uq[s].live
  /\ LET r == UnitQuaternionFromQuaternion(q.prim, q.e)
     IN  /\ uq' = [uq EXCEPT ![s] = r.obj]
         /\ last' = Op("UnitQuaternion(quat)", s, "q", r, Vec(q.e), q.prim, <<>>)
  /\ UNCHANGED <<checked, q, writes>>

\* t = s;
UQ_Assign(t, s) ==
  /\ uq[t].live /\ uq[s].live /\ uq[t].prim = uq[s].prim
  /\ LET r == UnitQuaternionAssign(uq[t], uq[s])
     IN  /\ uq' = [uq EXCEPT ![t] = r.obj]
         /\ last' = Op("operator=", t, s, r, Vec(uq[s].e), uq[s].prim, <<>>)
  /\ UNCHANGED <<checked, q, writes>>

\* t(s);
UQ_ConvertUnit(t, s) ==
  /\ uq[t].live /\ uq[s].live
  /\ LET r == UnitQuaternionConvertUnit(uq[t], uq[s])
     IN  /\ uq' = [uq EXCEPT ![t] = r.obj]
         /\ last' = Op("operator()(unit)", t, s, r, Vec(uq[s].e), uq[s].prim, <<>>)
  /\ UNCHANGED <<checked, q, writes>>

\* t(q);
UQ_ConvertQuat(t) ==
  /\ uq[t].live
  /\ LET r == UnitQuaternionConvertQuat(uq[t], q)
     IN  /\ uq' = [uq EXCEPT ![t] = r.obj]
         /\ last' = Op("operator()(quat)", t, "q", r, Vec(q.e), q.prim, <<>>)
  /\ UNCHANGED <<checked, q, writes>>

\* UnitQuaternion<uq[s].prim> d = s.conjugated();
UQ_Conjugated(d, s) ==
  /\ uq[s].live /\ ~uq[d].live
  /\ LET r == UnitQuaternionConjugated(uq[s])
     IN  /\ uq' = [uq EXCEPT ![d] = r.obj]
         /\ last' = Op("conjugated()", d, s, r, Vec(uq[s].e), uq[s].prim,
                       IF r.raised THEN <<>> ELSE Vec(r.obj.e))
  /\ UNCHANGED <<checked, q, writes>>

\* s.conjugate();
UQ_Conjugate(s) ==
  /\ uq[s].live
  /\ LET r == UnitQuaternionConjugate(uq[s])
     IN  /\ uq' = [uq EXCEPT ![s] = r.obj]
         /\ last' = Op("conjugate()", s, s, r, Vec(uq[s].e), uq[s].prim, Vec(r.obj.e))
  /\ UNCHANGED <<checked, q, writes>>

\* s.w() = val;  (or x, y, z)
UQ_Write(s, c, val) ==
  /\ uq[s].live
  /\ writes < MaxWrites
  /\ writes' = writes + 1
  /\ uq' = [uq EXCEPT ![s] = UnitQuaternionWrite(uq[s], c, StaticCast(val, "double", uq[s].prim))]
  /\ last' = Op(c, s, "-", NoResult, <<StaticCast(val, "double", uq[s].prim)>>, uq[s].prim, <<>>)
  /\ UNCHANGED <<checked, q>>

\* s.getReal(); s.getImaginary(); s.getVector4();
UQ_GetReal(s) ==
  /\ uq[s].live
  /\ last' = Op("getReal()", s, "-", NoResult, <<>>, uq[s].prim, UnitQuaternionGetReal(uq[s]))
  /\ UNCHANGED <<checked, uq, q, writes>>

UQ_GetImaginary(s) ==
  /\ uq[s].live
  /\ last' = Op("getImaginary()", s, "-", NoResult, <<>>, uq[s].prim, UnitQuaternionGetImaginary(uq[s]))
  /\ UNCHANGED <<checked, uq, q, writes>>

UQ_GetVector4(s) ==
  /\ uq[s].live
  /\ last' = Op("getVector4()", s, "-", NoResult, <<>>, uq[s].prim, UnitQuaternionGetVector4(uq[s]))
  /\ UNCHANGED <<checked, uq, q, writes>>

\* the end of the scope of s
UQ_Destroy(s) ==
  /\ uq[s].live
  /\ uq' = [uq EXCEPT ![s] = Dead]
  /\ last' = Op("~UnitQuaternion()", s, "-", NoResult, <<>>, uq[s].prim, <<>>)
  /\ UNCHANGED <<checked, q, writes>>

\* q = Quaternion<p>();
Q_Default(p) ==
  /\ q' = Quat(p, QuaternionDefault)
  /\ last' = Op("Quaternion()", "q", "-", NoResult, <<>>, p, <<>>)
  /\ UNCHANGED <<checked, uq, writes>>

\* q = Quaternion<p>(w, x, y, z);
Q_FromScalars(p, v) ==
  /\ q' = Quat(p, QuaternionFromScalars(v[1], v[2], v[3], v[4]))
  /\ last' = Op("Quaternion(w,x,y,z)", "q", "-", NoResult, v, p, <<>>)
  /\ UNCHANGED <<checked, uq, writes>>

\* q = Quaternion<p>(vector4);
Q_FromVector4(p, v) ==
  /\ q' = Quat(p, QuaternionFromVector4(v))
  /\ last' = Op("Quaternion(vector4)", "q", "-", NoResult, v, p, <<>>)
  /\ UNCHANGED <<checked, uq, writes>>

\* q.conjugated();
Q_Conjugated ==
  /\ last' = Op("conjugated()", "q", "q", NoResult, Vec(q.e), q.prim, Vec(QuaternionConjugated(q.e)))
  /\ UNCHANGED <<checked, uq, q, writes>>

\* q.conjugate();
Q_Conjugate ==
  /\ q' = Quat(q.prim, QuaternionConjugated(q.e))
  /\ last' = Op("conjugate()", "q", "q", NoResult, Vec(q.e), q.prim, Vec(QuaternionConjugated(q.e)))
  /\ UNCHANGED <<checked, uq, writes>>

Q_GetReal ==
  /\ last' = Op("getReal()", "q", "-", NoResult, <<>>, q.prim, QuaternionGetReal(q.e))
  /\ UNCHANGED <<checked, uq, q, writes>>

Q_GetImaginary ==
  /\ last' = Op("getImaginary()", "q", "-", NoResult, <<>>, q.prim, QuaternionGetImaginary(q.e))
  /\ UNCHANGED <<checked, uq, q, writes>>

Q_GetVector4 ==
  /\ last' = Op("getVector4()", "q", "-", NoResult, <<>>, q.prim, QuaternionGetVector4(q.e))
  /\ UNCHANGED <<checked, uq, q, writes>>

\* UnitQuaternion<q.prim> d = q.toUnitQuaternion();
Q_ToUnitQuaternion(d) ==
  /\ ~uq[d].live
  /\ SquaredNorm(q.e) # 0
  /\ LET r == QuaternionToUnitQuaternion(q)
     IN  /\ uq' = [uq EXCEPT ![d] = r.obj]
         /\ last' = Op("toUnitQuaternion()", d, "q", r, Vec(q.e), q.prim,
                       IF r.raised THEN <<>> ELSE Vec(r.obj.e))
  /\ UNCHANGED <<checked, q, writes>>

\* the scalar types the client instantiates each variable with
SlotPrims(s) == IF s = "a" THEN {"double"} ELSE Prims

QuatPrims == {"double"}

Construct ==
  \/ \E s \in Slots : \E p \in SlotPrims(s) : UQ_Default(s, p)
  \/ \E s \in Slots : \E p \in SlotPrims(s), v \in Inputs : UQ_FromScalars(s, p, Literal(v, p))
  \/ \E s \in Slots : \E p \in SlotPrims(s), v \in FewInputs : UQ_FromRealImag(s, p, Literal(v, p))
  \/ \E s \in Slots : \E p \in SlotPrims(s), v \in FewInputs : UQ_FromVector4(s, p, Literal(v, p))
  \/ \E s \in Slots : \E p \in SlotPrims(s), v \in FewInputs : UQ_FromImplementation(s, p, Literal(v, p))
  \/ \E s \in Slots : UQ_FromQuaternion(s)
  \/ \E s \in Slots : UQ_Destroy(s)
  \/ \E p \in QuatPrims : Q_Default(p)
  \/ \E p \in QuatPrims, v \in QuatInputs : Q_FromScalars(p, Literal(v, p))

Convert ==
  \/ \E t \in Slots, s \in Slots : UQ_Assign(t, s)
  \/ \E t \in Slots, s \in Slots : UQ_ConvertUnit(t, s)
  \/ \E t \in Slots : UQ_ConvertQuat(t)
  \/ \E d \in Slots, s \in Slots : UQ_Conjugated(d, s)
  \/ \E s \in Slots : UQ_Conjugate(s)
  \/ \E d \in Slots : Q_ToUnitQuaternion(d)

Next == Construct \/ Convert

Spec == Init /\ [][Next]_vars

\* the operations on one value: construction from a 4-vector, the
\* projections and the conjugates
NextValue ==
  \/ \E s \in Slots : \E p \in SlotPrims(s) : UQ_Default(s, p)
  \/ \E s \in Slots : \E p \in SlotPrims(s), v \in Inputs : UQ_FromVector4(s, p, Literal(v, p))
  \/ \E s \in Slots : UQ_Destroy(s)
  \/ \E p \in QuatPrims : Q_Default(p)
  \/ \E p \in QuatPrims, v \in Inputs : Q_FromVector4(p, Literal(v, p))
  \/ \E d \in Slots, s \in Slots : UQ_Conjugated(d, s)
  \/ \E s \in Slots : UQ_Conjugate(s)
  \/ Q_Conjugated
  \/ Q_Conjugate
  \/ \E s \in Slots : UQ_GetReal(s)
  \/ \E s \in Slots : UQ_GetImaginary(s)
  \/ \E s \in Slots : UQ_GetVector4(s)
  \/ Q_GetReal
  \/ Q_GetImaginary
  \/ Q_GetVector4

SpecValue == Init /\ [][NextValue]_vars

\* the mutable accessors, the copies and the conjugates
NextWrite ==
  \/ \E s \in Slots : \E p \in SlotPrims(s) : UQ_Default(s, p)
  \/ \E s \in Slots : \E p \in SlotPrims(s), v \in ValueInputs : UQ_FromScalars(s, p, Literal(v, p))
  \/ \E s \in Slots : UQ_Destroy(s)
  \/ \E s \in Slots, c \in Components, val \in WriteVals : UQ_Write(s, c, val)
  \/ \E t \in Slots, s \in Slots : UQ_Assign(t, s)
  \/ \E t \in Slots, s \in Slots : UQ_ConvertUnit(t, s)
  \/ \E d \in Slots, s \in Slots : UQ_Conjugated(d, s)
  \/ \E s \in Slots : UQ_Conjugate(s)
  \/ \E s \in Slots : UQ_GetReal(s)
  \/ \E s \in Slots : UQ_GetImaginary(s)
  \/ \E s \in Slots : UQ_GetVector4(s)

SpecWrite == Init /\ [][NextWrite]_vars

---------------------------------------------------------------------------
(* Properties *)

\* the value the last operation was given, as a quaternion
ArgImpl == Impl(last.arg[1], last.arg[2], last.arg[3], last.arg[4])

\* the value the last operation returned, as a quaternion
RetImpl == Impl(last.ret[1], last.ret[2], last.ret[3], last.ret[4])

ValidatingCtors ==
  { "UnitQuaternion(w,x,y,z)", "UnitQuaternion(w,imag)", "UnitQuaternion(vector4)",
    "UnitQuaternion(quat)", "UnitQuaternion(impl)" }

ValidatingOps == ValidatingCtors \cup {"operator()(quat)"}

\* the supplied value as the receiver of the last operation stores it: a
\* constructor is given values of its own scalar type, operator() casts
StoredImpl ==
  IF last.op = "operator()(quat)"
  THEN CastImpl(ArgImpl, last.aprim, uq[last.tgt].prim)
  ELSE ArgImpl

C2_ConjugationUnvalidated ==
  ( /\ last.op \in {"conjugated()", "conjugate()"}
    /\ last.tgt \in Slots
    /\ NormNear(ArgImpl, One, Tol) ) =>
    /\ ~last.raised
    /\ NormNear(RetImpl, One, Tol)
    /\ last.checks = 0

\* C3 (as claimed): in a checked build, after a validating construction or
\* conversion has raised, no UnitQuaternion in scope holds the rejected
\* components.
C3_RejectedNeverStored ==
  (checked /\ last.op \in ValidatingOps /\ last.raised) =>
    \A s \in Slots :
      ~(uq[s].live /\ uq[s].e = CastImpl(ArgImpl, last.aprim, uq[s].prim))

\* r is e scaled by a positive factor, each coefficient rounded to a multiple
\* of g
Scaled(r, e, g) ==
  /\ \A c \in Components : r[c] * e[c] >= 0 /\ (e[c] = 0 => r[c] = 0)
  /\ \A c \in Components : \A d \in Components :
       2 * Abs(Abs(r[c]) * Abs(e[d]) - Abs(r[d]) * Abs(e[c])) <= (Abs(e[c]) + Abs(e[d])) * g

\* C4: toUnitQuaternion() on a quaternion of nonzero norm never raises, in
\* either build; the UnitQuaternion it returns has norm 1 within the
\* tolerance and the components of q scaled by 1/norm(q); q is unchanged.
C4_ToUnitQuaternion ==
  last.op = "toUnitQuaternion()" =>
    /\ ~last.raised
    /\ uq[last.tgt].live
    /\ uq[last.tgt].prim = q.prim
    /\ NormNear(uq[last.tgt].e, One, Tol)
    /\ Scaled(uq[last.tgt].e, q.e, Quantum(q.prim))
    /\ Vec(q.e) = last.arg

\* C4 witness: (0.3,-0.4,0,0) became the unit quaternion (0.6,-0.8,0,0) in
\* a checked build.
C4_Witness ==
  /\ checked
  /\ last.op = "toUnitQuaternion()"
  /\ q.e = Impl(6000, -8000, 0, 0)
  /\ uq[last.tgt].live
  /\ uq[last.tgt].e = Impl(12000, -16000, 0, 0)

\* t is s cast from scalar type from to scalar type to
IsCastOf(t, s, from, to) ==
  /\ t % Quantum(to) = 0
  /\ 2 * Abs(t - s) <= Quantum(to)
  /\ (s % Quantum(to) = 0 => t = s)
  /\ (from = to => t = s)

\* C5: operator= and operator() from another UnitQuaternion copy the four
\* components of the source into the target, each cast to the target's
\* scalar type; they execute no assertion and never raise, whatever the
\* norm of the source; the source is unchanged.
C5_CopiesUnvalidated ==
  last.op \in {"operator=", "operator()(unit)"} =>
    /\ ~last.raised
    /\ last.checks = 0
    /\ uq[last.tgt].live /\ uq[last.src].live
    /\ uq[last.src].prim = last.aprim
    /\ Vec(uq[last.src].e) = last.arg
    /\ \A c \in Components :
         IsCastOf(uq[last.tgt].e[c], ArgImpl[c], last.aprim, uq[last.tgt].prim)
    /\ last.op = "operator=" => uq[last.tgt].prim = last.aprim

\* C5 witness: a double UnitQuaternion was converted into a float one and
\* the cast changed its components.
C5_Witness ==
  /\ last.op = "operator()(unit)"
  /\ last.aprim = "double" /\ uq[last.tgt].prim = "float"
  /\ uq[last.tgt].e # ArgImpl
  /\ uq[last.src].e = ArgImpl

\* C6 (as claimed): in a checked build, with the mutable accessors unused,
\* every UnitQuaternion in scope has a norm within 1e-4 of 1.
C6_UnitNormInvariant ==
  checked => \A s \in Slots : uq[s].live => NormNear(uq[s].e, One, Tol)

\* C9: a default-constructed UnitQuaternion is (1,0,0,0), has unit norm and
\* is constructed without raising in either build; a default-constructed
\* Quaternion is (0,0,0,0).
C9_Defaults ==
  /\ last.op = "UnitQuaternion()" =>
       /\ ~last.raised
       /\ uq[last.tgt].live
       /\ uq[last.tgt].e = [w |-> One, x |-> 0, y |-> 0, z |-> 0]
       /\ NormNear(uq[last.tgt].e, One, Tol)
  /\ last.op = "Quaternion()" =>
       q.e = [w |-> 0, x |-> 0, y |-> 0, z |-> 0]

\* C9 witness: a float UnitQuaternion was default-constructed in a checked
\* build.
C9_Witness ==
  /\ checked
  /\ last.op = "UnitQuaternion()"
  /\ uq[last.tgt].live
  /\ uq[last.tgt].prim = "float"

ReadOps == {"getReal()", "getImaginary()", "getVector4()"}

\* a step that writes through a mutable accessor: nothing is raised or
\* asserted, the named component takes the value, nothing else changes
C7_WriteStep ==
  writes' # writes =>
    LET s == last'.tgt
        c == last'.op
    IN  /\ c \in Components
        /\ ~last'.raised /\ last'.checks = 0
        /\ uq'[s].live /\ uq'[s].prim = uq[s].prim
        /\ uq'[s].e[c] = last'.arg[1]
        /\ \A d \in Components \ {c} : uq'[s].e[d] = uq[s].e[d]
        /\ \A t \in Slots \ {s} : uq'[t] = uq[t]
        /\ q' = q

\* a step of a non-validating operation on an instance i whose norm is
\* outside the tolerance: nothing is raised or asserted, the norm of i is
\* what it was, and a same-type copy is outside the tolerance too
C7_LaterStep ==
  last'.op \in ({"operator=", "operator()(unit)", "conjugate()"} \cup ReadOps) =>
    LET i == IF last'.op \in {"operator=", "operator()(unit)"}
             THEN last'.src ELSE last'.tgt
    IN  ~NormNear(uq[i].e, One, Tol) =>
          /\ ~last'.raised /\ last'.checks = 0
          /\ uq'[i].live
          /\ SquaredNorm(uq'[i].e) = SquaredNorm(uq[i].e)
          /\ last'.op \in ({"operator()(unit)"} \cup ReadOps) => uq'[i] = uq[i]
          /\ last'.op = "operator=" => uq'[last'.tgt].e = uq[i].e

\* C7: a write through a mutable component accessor of a UnitQuaternion
\* never raises, in either build, and changes that component alone; it can
\* leave the norm outside the tolerance, and same-type assignment,
\* conversion from that UnitQuaternion, conjugate() and the read accessors
\* then neither raise nor bring the norm back.
C7_WritesUnchecked == [][C7_WriteStep /\ C7_LaterStep]_vars

\* C7 witness: in a checked build a write left a UnitQuaternion with a norm
\* outside the tolerance and conjugate() then ran on it.
C7_Witness ==
  /\ checked
  /\ writes > 0
  /\ last.op = "conjugate()"
  /\ ~last.raised
  /\ ~NormNear(uq[last.tgt].e, One, Tol)

\* the receiver of the last operation, when it is still in scope
Receiver == IF last.tgt = "q" THEN q.e ELSE uq[last.tgt].e

\* after construction from a 4-vector v: w = v(0), x = v(1), y = v(2),
\* z = v(3), and getVector4() gives v back; after a projection: what it
\* returned
C8_Projections ==
  /\ (last.op = "UnitQuaternion(vector4)" /\ ~last.raised) =>
       /\ uq[last.tgt].e.w = last.arg[1] /\ uq[last.tgt].e.x = last.arg[2]
       /\ uq[last.tgt].e.y = last.arg[3] /\ uq[last.tgt].e.z = last.arg[4]
       /\ UnitQuaternionGetVector4(uq[last.tgt]) = last.arg
  /\ last.op = "Quaternion(vector4)" =>
       /\ q.e.w = last.arg[1] /\ q.e.x = last.arg[2]
       /\ q.e.y = last.arg[3] /\ q.e.z = last.arg[4]
       /\ QuaternionGetVector4(q.e) = last.arg
  /\ last.op = "getVector4()" =>
       last.ret = <<Receiver.w, Receiver.x, Receiver.y, Receiver.z>>
  /\ last.op = "getReal()" => last.ret = <<Receiver.w>>
  /\ last.op = "getImaginary()" => last.ret = <<Receiver.x, Receiver.y, Receiver.z>>

\* C8: both types keep the 4-vector order (w, x, y, z): construction from a
\* 4-vector v gives w = v(0), x = v(1), y = v(2), z = v(3), getVector4()
\* returns (w, x, y, z) and so gives v back, getReal() is w, getImaginary()
\* is (x, y, z), and no projection changes its receiver.
C8_VectorOrder ==
  [][ /\ C8_Projections'
      /\ last'.op \in ReadOps => (uq' = uq /\ q' = q) ]_vars

\* C8 witness: getVector4() on a UnitQuaternion built from the 4-vector
\* (0.36,0.48,0.224,0.768) returned it.
C8_Witness ==
  /\ last.op = "getVector4()"
  /\ last.tgt \in Slots
  /\ last.ret = <<7200, 9600, 4480, 15360>>

\* C10 (as claimed): on both types conjugated() returns (w,-x,-y,-z) and
\* leaves the receiver unchanged, conjugate() turns the receiver into that
\* value and returns it, for every receiver.
C10_Conjugation ==
  /\ last.op = "conjugated()" =>
       /\ ~last.raised
       /\ last.ret = <<last.arg[1], -last.arg[2], -last.arg[3], -last.arg[4]>>
       /\ Vec(IF last.src = "q" THEN q.e ELSE uq[last.src].e) = last.arg
  /\ last.op = "conjugate()" =>
       /\ ~last.raised
       /\ last.ret = <<last.arg[1], -last.arg[2], -last.arg[3], -last.arg[4]>>
       /\ Vec(Receiver) = last.ret

===========================================================================
